---- MODULE Spec2Model ----
(***************************************************************************)
(* Wallet / Transaction ledger, Station ownership and the purchase-request *)
(* workflow of drugba-metro (src/main.py, src/models/money.py,             *)
(* src/models/metro.py, src/models/camp.py).                               *)
(*                                                                         *)
(* The stored state is the content of the tables wallets, transactions,    *)
(* stations and requests.  Spec runs every HTTP handler as one step (calls *)
(* made one after another); ConcSpec runs each handler in its own session, *)
(* split at the points where the session reads rows and where it commits.  *)
(*                                                                         *)
(* main.py reads the requesting squad of a request as squad_id; the column *)
(* is declared as origin_squad_id in models/money.py.  The model keeps the *)
(* column's name and reads it through squad_id.                            *)
(* alchemy.session_scope() is not part of src/db.py; it is modelled as the *)
(* unit of work the specification describes: a new session per `with`,     *)
(* commit on normal exit, rollback when an exception leaves the block.     *)
(***************************************************************************)
EXTENDS Integers, Sequences, FiniteSets, TLC

VARIABLES
    wallets,          \* set of squad ids that have a row in table wallets
    current_balance,  \* Wallet.current_balance, by squad id
    created_balance,  \* history: current_balance as set by Wallet.__init__
    owner_id,         \* Station.owner_id, by station id (None when unowned)
    transactions,     \* table transactions, in insertion order
    requests,         \* table requests, in insertion order (index = id)
    sessions,         \* per in-flight handler call: position and rows read
    calls,            \* number of calls started in their own session (ConcSpec)
    last              \* history: the handler call that finished last

vars == <<wallets, current_balance, created_balance, owner_id, transactions,
          requests, sessions, calls, last>>

db == <<wallets, current_balance, created_balance, owner_id, transactions, requests>>

----------------------------------------------------------------------------
(* Bounds of the model *)

MaxTransactions == 2
MaxRequests == 2
MaxCalls == 4

(* Program constants *)

INITIAL_BALANCE == 10000
\* line 47 as time(20, 30, 1): 20:30:00 itself is outside the window
available_after_Exclusive == 20 * 3600 + 30 * 60 + 1
available_after == 73800     \* time(20, 30), in seconds of the day
available_until == 84600     \* time(23, 30), in seconds of the day

None == 0

Squads == {1, 2}
Stations == {1, 2}
\* a station id with no row in table stations
UnknownStation == Cardinality(Stations) + 1
\* the squad id the form sends for "return the station"
ReturnSquad == 0 - 1

\* Station.initial_price of the two stations of the model
initial_price(st) == IF st = 1 THEN 5000 ELSE 6000

\* amounts an administrator submits to /admin/add-balance (any int is accepted)
Amounts == {0 - 12000, 12000}

\* initial_balance arguments of Wallet(...): <<given, value>>
InitialBalances == {<<FALSE, 0>>, <<TRUE, 0>>}

\* readings of datetime.now().time(), in seconds of the day
Clock == {available_after - 1, available_after, available_until, available_until + 1}

Procs == {1, 2}

\* initial_balance arguments of Wallet(squad, initial_balance) in FundedSpec: the
\* price of station 1, the price of both stations, the amount of Amounts
StartBalances == {initial_price(1), initial_price(1) + initial_price(2), 12000}

----------------------------------------------------------------------------
(* models/money.py *)

\* Wallet.__init__: initial_balance or Wallet.INITIAL_BALANCE
Wallet_init(given, initial_balance) ==
    IF given /\ initial_balance # 0 THEN initial_balance ELSE INITIAL_BALANCE

\* Transaction.__init__ for the two subclasses
Transaction(wallet, type, amount, reason) ==
    [wallet |-> wallet, type |-> type, amount |-> amount, reason |-> reason,
     status |-> "created", comment |-> <<>>]

\* Deposit.execute without line 84: the transaction completes, the balance stays
Deposit_execute_NoCredit(t, balance) ==
    [balance |-> balance,
     tx |-> [t EXCEPT !.status = "completed",
                      !.comment = <<"deposit", balance, balance>>],
     raised |-> FALSE,
     deficit |-> 0]

\* Deposit.execute refusing a wallet whose balance is negative
Deposit_execute_NonNegative(t, balance) ==
    IF balance < 0
    THEN [balance |-> balance,
          tx |-> [t EXCEPT !.status = "failed",
                           !.comment = <<"deposit", balance, balance>>],
          raised |-> FALSE,
          deficit |-> 0]
    ELSE [balance |-> balance + t.amount,
          tx |-> [t EXCEPT !.status = "completed",
                           !.comment = <<"deposit", balance, balance + t.amount>>],
          raised |-> FALSE,
          deficit |-> 0]

\* Deposit.execute: the new balance and the executed transaction
Deposit_execute(t, balance) ==
    [balance |-> balance + t.amount,
     tx |-> [t EXCEPT !.status = "completed",
                      !.comment = <<"deposit", balance, balance + t.amount>>],
     raised |-> FALSE,
     deficit |-> 0]

\* Withdrawal.execute with line 104 moved before the check of line 96: the
\* balance is debited also when the withdrawal fails
Withdrawal_execute_DebitFirst(t, balance) ==
    IF t.amount > balance
    THEN [balance |-> balance - t.amount,
          tx |-> [t EXCEPT !.status = "failed",
                           !.comment = <<"insufficient", balance, t.amount - balance>>],
          raised |-> TRUE,
          deficit |-> t.amount - balance]
    ELSE [balance |-> balance - t.amount,
          tx |-> [t EXCEPT !.status = "completed",
                           !.comment = <<"withdrawal", balance, balance - t.amount>>],
          raised |-> FALSE,
          deficit |-> 0]

\* Withdrawal.execute without line 99: a refused withdrawal keeps the status
\* Transaction.__init__ gave it
Withdrawal_execute_KeepsCreated(t, balance) ==
    IF t.amount > balance
    THEN [balance |-> balance,
          tx |-> [t EXCEPT !.comment = <<"insufficient", balance, t.amount - balance>>],
          raised |-> TRUE,
          deficit |-> t.amount - balance]
    ELSE [balance |-> balance - t.amount,
          tx |-> [t EXCEPT !.status = "completed",
                           !.comment = <<"withdrawal", balance, balance - t.amount>>],
          raised |-> FALSE,
          deficit |-> 0]

\* Withdrawal.execute with >= in the comparison of line 96: a withdrawal of the
\* whole balance fails
Withdrawal_execute_Strict(t, balance) ==
    IF t.amount >= balance
    THEN [balance |-> balance,
          tx |-> [t EXCEPT !.status = "failed",
                           !.comment = <<"insufficient", balance, t.amount - balance>>],
          raised |-> TRUE,
          deficit |-> t.amount - balance]
    ELSE [balance |-> balance - t.amount,
          tx |-> [t EXCEPT !.status = "completed",
                           !.comment = <<"withdrawal", balance, balance - t.amount>>],
          raised |-> FALSE,
          deficit |-> 0]

\* Withdrawal.execute: raises ValueError carrying the deficit when amount > balance
Withdrawal_execute(t, balance) ==
    IF t.amount > balance
    THEN [balance |-> balance,
          tx |-> [t EXCEPT !.status = "failed",
                           !.comment = <<"insufficient", balance, t.amount - balance>>],
          raised |-> TRUE,
          deficit |-> t.amount - balance]
    ELSE [balance |-> balance - t.amount,
          tx |-> [t EXCEPT !.status = "completed",
                           !.comment = <<"withdrawal", balance, balance - t.amount>>],
          raised |-> FALSE,
          deficit |-> 0]

\* SquadRequest.__init__ with line 139 assigning RequestStatus.APPROVED
PurchaseStationRequest_Approved(origin_squad, station) ==
    [type |-> "STATION_PURCHASE", status |-> "APPROVED",
     origin_squad_id |-> origin_squad, station_id |-> station]

\* SquadRequest.__init__ / PurchaseStationRequest.__init__
PurchaseStationRequest(origin_squad, station) ==
    [type |-> "STATION_PURCHASE", status |-> "CREATED",
     origin_squad_id |-> origin_squad, station_id |-> station]

\* the requesting squad of a request, as main.py reads it
squad_id(r) == r.origin_squad_id

----------------------------------------------------------------------------
(* Responses and the history record of the last finished call *)

Response(code, message, deficit) ==
    [status_code |-> code, message |-> message, deficit |-> deficit]

NoEffect ==
    [txs |-> <<>>, set_balance |-> FALSE, balance |-> 0,
     set_owner |-> FALSE, reqs |-> <<>>]

NoCall == [op |-> "none", response |-> Response(0, "", 0)]

Finished(op, response) == [op |-> op, response |-> response]

----------------------------------------------------------------------------
(* Rows a session reads *)

\* sa.select(Wallet).filter_by(squad_id=...) and sa.select(Station).filter_by(id=...)
ReadRows(squad, station) ==
    [wallet_found |-> squad \in wallets,
     balance |-> IF squad \in wallets THEN current_balance[squad] ELSE 0,
     station_found |-> station \in Stations,
     owner |-> IF station \in Stations THEN owner_id[station] ELSE None,
     reqs |-> requests]

----------------------------------------------------------------------------
(* main.py: what each handler answers and writes, from the rows it read *)

\* what the session writes for a wallet whose balance execute() left at `balance`:
\* the transaction row, and the balance when it differs from the one read
Executed(x, snap) ==
    [NoEffect EXCEPT !.txs = <<x.tx>>,
                     !.set_balance = (x.balance # snap.balance),
                     !.balance = x.balance]

\* add_balance, lines 595-625
add_balance(squad, type, amount, snap) ==
    IF ~snap.wallet_found
    THEN [response |-> Response(400, "squad_not_found", 0), effect |-> NoEffect]
    ELSE IF type = "deposit"
    THEN LET d == Deposit_execute(Transaction(squad, "deposit", amount, <<"manual">>),
                                  snap.balance)
         IN  [response |-> Response(201, "balance_updated", 0),
              effect |-> Executed(d, snap)]
    ELSE IF type = "withdraw"
    THEN LET w == Withdrawal_execute(
                      Transaction(squad, "withdrawal", amount, <<"manual">>),
                      snap.balance)
         IN  IF w.raised
             THEN [response |-> Response(400, "insufficient_funds", w.deficit),
                   effect |-> Executed(w, snap)]
             ELSE [response |-> Response(201, "balance_updated", 0),
                   effect |-> Executed(w, snap)]
    ELSE [response |-> Response(201, "balance_updated", 0), effect |-> NoEffect]

\* change_station_owner without lines 535-541: the owner of the station is not
\* looked at before the withdrawal
change_station_owner_NoOwnerCheck(station, squad, snap) ==
    IF squad = ReturnSquad
    THEN [response |-> Response(501, "return_not_supported", 0), effect |-> NoEffect]
    ELSE IF ~snap.wallet_found
    THEN [response |-> Response(400, "squad_not_found", 0), effect |-> NoEffect]
    ELSE IF ~snap.station_found
    THEN [response |-> Response(400, "station_not_found", 0), effect |-> NoEffect]
    ELSE LET w == Withdrawal_execute(
                      Transaction(squad, "withdrawal", initial_price(station),
                                  <<"purchase", station>>),
                      snap.balance)
         IN  IF w.raised
             THEN [response |-> Response(400, "insufficient_funds", w.deficit),
                   effect |-> Executed(w, snap)]
             ELSE [response |-> Response(201, "station_bought", 0),
                   effect |-> [Executed(w, snap) EXCEPT !.set_owner = TRUE]]

\* change_station_owner with the return of lines 515-519 carried out instead of
\* refused: the station is taken from its owner and given the id of the form
change_station_owner_ReturnAssigns(station, squad, snap) ==
    IF squad = ReturnSquad
    THEN IF snap.station_found
         THEN [response |-> Response(201, "station_bought", 0),
               effect |-> [NoEffect EXCEPT !.set_owner = TRUE]]
         ELSE [response |-> Response(400, "station_not_found", 0), effect |-> NoEffect]
    ELSE IF ~snap.wallet_found
    THEN [response |-> Response(400, "squad_not_found", 0), effect |-> NoEffect]
    ELSE IF ~snap.station_found
    THEN [response |-> Response(400, "station_not_found", 0), effect |-> NoEffect]
    ELSE IF snap.owner # None
    THEN [response |-> Response(400, "station_already_bought", 0), effect |-> NoEffect]
    ELSE LET w == Withdrawal_execute(
                      Transaction(squad, "withdrawal", initial_price(station),
                                  <<"purchase", station>>),
                      snap.balance)
         IN  IF w.raised
             THEN [response |-> Response(400, "insufficient_funds", w.deficit),
                   effect |-> Executed(w, snap)]
             ELSE [response |-> Response(201, "station_bought", 0),
                   effect |-> [Executed(w, snap) EXCEPT !.set_owner = TRUE]]

\* change_station_owner without line 551: the price is withdrawn and the station
\* is not given to the squad
change_station_owner_NoAssign(station, squad, snap) ==
    IF squad = ReturnSquad
    THEN [response |-> Response(501, "return_not_supported", 0), effect |-> NoEffect]
    ELSE IF ~snap.wallet_found
    THEN [response |-> Response(400, "squad_not_found", 0), effect |-> NoEffect]
    ELSE IF ~snap.station_found
    THEN [response |-> Response(400, "station_not_found", 0), effect |-> NoEffect]
    ELSE IF snap.owner # None
    THEN [response |-> Response(400, "station_already_bought", 0), effect |-> NoEffect]
    ELSE LET w == Withdrawal_execute(
                      Transaction(squad, "withdrawal", initial_price(station),
                                  <<"purchase", station>>),
                      snap.balance)
         IN  IF w.raised
             THEN [response |-> Response(400, "insufficient_funds", w.deficit),
                   effect |-> Executed(w, snap)]
             ELSE [response |-> Response(201, "station_bought", 0),
                   effect |-> Executed(w, snap)]

\* change_station_owner, lines 515-562
change_station_owner(station, squad, snap) ==
    IF squad = ReturnSquad
    THEN [response |-> Response(501, "return_not_supported", 0), effect |-> NoEffect]
    ELSE IF ~snap.wallet_found
    THEN [response |-> Response(400, "squad_not_found", 0), effect |-> NoEffect]
    ELSE IF ~snap.station_found
    THEN [response |-> Response(400, "station_not_found", 0), effect |-> NoEffect]
    ELSE IF snap.owner # None
    THEN [response |-> Response(400, "station_already_bought", 0), effect |-> NoEffect]
    ELSE LET w == Withdrawal_execute(
                      Transaction(squad, "withdrawal", initial_price(station),
                                  <<"purchase", station>>),
                      snap.balance)
         IN  IF w.raised
             THEN [response |-> Response(400, "insufficient_funds", w.deficit),
                   effect |-> Executed(w, snap)]
             ELSE [response |-> Response(201, "station_bought", 0),
                   effect |-> [Executed(w, snap) EXCEPT !.set_owner = TRUE]]

\* the loop of lines 413-432 with line 415 also comparing the squads: only the
\* caller's own request for the station counts as a duplicate
RECURSIVE scan_requests_OwnOnly(_, _, _, _, _)
scan_requests_OwnOnly(reqs, i, sum, station, squad) ==
    IF i > Len(reqs)
    THEN [duplicate |-> "none", sum |-> sum]
    ELSE IF reqs[i].type # "STATION_PURCHASE"
    THEN scan_requests_OwnOnly(reqs, i + 1, sum, station, squad)
    ELSE IF reqs[i].station_id = station /\ squad_id(reqs[i]) = squad
    THEN [duplicate |-> "own", sum |-> sum]
    ELSE IF reqs[i].status = "CREATED" /\ squad_id(reqs[i]) = squad
    THEN scan_requests_OwnOnly(reqs, i + 1, sum + initial_price(reqs[i].station_id),
                               station, squad)
    ELSE scan_requests_OwnOnly(reqs, i + 1, sum, station, squad)

\* create_purchase_request, the loop of lines 413-432 from request i on
RECURSIVE scan_requests(_, _, _, _, _)
scan_requests(reqs, i, sum, station, squad) ==
    IF i > Len(reqs)
    THEN [duplicate |-> "none", sum |-> sum]
    ELSE IF reqs[i].type # "STATION_PURCHASE"
    THEN scan_requests(reqs, i + 1, sum, station, squad)
    ELSE IF reqs[i].station_id = station
    THEN [duplicate |-> IF squad_id(reqs[i]) = squad THEN "own" ELSE "other",
          sum |-> sum]
    ELSE IF reqs[i].status = "CREATED" /\ squad_id(reqs[i]) = squad
    THEN scan_requests(reqs, i + 1, sum + initial_price(reqs[i].station_id),
                       station, squad)
    ELSE scan_requests(reqs, i + 1, sum, station, squad)

\* create_purchase_request with >= in the comparison of line 433: a balance equal
\* to the total is refused
create_purchase_request_GE(squad, station, current_time, snap) ==
    IF current_time < available_after \/ current_time > available_until
    THEN [response |-> Response(400, "outside_window", 0), effect |-> NoEffect]
    ELSE IF ~snap.station_found
    THEN [response |-> Response(400, "station_not_found", 0), effect |-> NoEffect]
    ELSE LET s == scan_requests(snap.reqs, 1, 0, station, squad)
         IN  IF s.duplicate = "own"
             THEN [response |-> Response(400, "already_sent", 0), effect |-> NoEffect]
             ELSE IF s.duplicate = "other"
             THEN [response |-> Response(400, "sent_by_other_squad", 0),
                   effect |-> NoEffect]
             ELSE IF ~snap.wallet_found
             THEN [response |-> Response(500, "error", 0), effect |-> NoEffect]
             ELSE IF s.sum + initial_price(station) >= snap.balance
             THEN [response |-> Response(400, "insufficient_funds",
                                         s.sum + initial_price(station) - snap.balance),
                   effect |-> NoEffect]
             ELSE [response |-> Response(201, "request_created", 0),
                   effect |-> [NoEffect EXCEPT
                                 !.reqs = <<PurchaseStationRequest(squad, station)>>]]

\* create_purchase_request without lines 404-410: a station id with no row is
\* not refused
create_purchase_request_NoStationCheck(squad, station, current_time, snap) ==
    IF current_time < available_after \/ current_time > available_until
    THEN [response |-> Response(400, "outside_window", 0), effect |-> NoEffect]
    ELSE LET s == scan_requests(snap.reqs, 1, 0, station, squad)
         IN  IF s.duplicate = "own"
             THEN [response |-> Response(400, "already_sent", 0), effect |-> NoEffect]
             ELSE IF s.duplicate = "other"
             THEN [response |-> Response(400, "sent_by_other_squad", 0),
                   effect |-> NoEffect]
             ELSE IF ~snap.wallet_found
             THEN [response |-> Response(500, "error", 0), effect |-> NoEffect]
             ELSE IF s.sum + initial_price(station) > snap.balance
             THEN [response |-> Response(400, "insufficient_funds",
                                         s.sum + initial_price(station) - snap.balance),
                   effect |-> NoEffect]
             ELSE [response |-> Response(201, "request_created", 0),
                   effect |-> [NoEffect EXCEPT
                                 !.reqs = <<PurchaseStationRequest(squad, station)>>]]

\* create_purchase_request, lines 396-445
create_purchase_request(squad, station, current_time, snap) ==
    IF current_time < available_after \/ current_time > available_until
    THEN [response |-> Response(400, "outside_window", 0), effect |-> NoEffect]
    ELSE IF ~snap.station_found
    THEN [response |-> Response(400, "station_not_found", 0), effect |-> NoEffect]
    ELSE LET s == scan_requests(snap.reqs, 1, 0, station, squad)
         IN  IF s.duplicate = "own"
             THEN [response |-> Response(400, "already_sent", 0), effect |-> NoEffect]
             ELSE IF s.duplicate = "other"
             THEN [response |-> Response(400, "sent_by_other_squad", 0),
                   effect |-> NoEffect]
             ELSE IF ~snap.wallet_found
             THEN \* squad.wallet is None: AttributeError leaves the session block
                  [response |-> Response(500, "error", 0), effect |-> NoEffect]
             ELSE IF s.sum + initial_price(station) > snap.balance
             THEN [response |-> Response(400, "insufficient_funds",
                                         s.sum + initial_price(station) - snap.balance),
                   effect |-> NoEffect]
             ELSE [response |-> Response(201, "request_created", 0),
                   effect |-> [NoEffect EXCEPT
                                 !.reqs = <<PurchaseStationRequest(squad, station)>>]]

----------------------------------------------------------------------------------------------------------------------------------------
(* session_scope: the writes of a session reach the tables at its commit *)

\* the flush of one session: the INSERTs into transactions, and the UPDATEs of
\* wallets.current_balance and stations.owner_id with the values the session set
Commit(e, squad, station) ==
    /\ transactions' = transactions \o e.txs
    /\ current_balance' = IF e.set_balance
                           THEN [current_balance EXCEPT ![squad] = e.balance]
                           ELSE current_balance
    /\ owner_id' = IF e.set_owner
                    THEN [owner_id EXCEPT ![station] = squad]
                    ELSE owner_id
    /\ UNCHANGED <<wallets, created_balance>>

\* the bounds of the model: the tables hold at most this many rows
Fits(e) ==
    /\ Len(transactions) + Len(e.txs) <= MaxTransactions
    /\ Len(requests) + Len(e.reqs) <= MaxRequests

----------------------------------------------------------------------------
(* Initial state: stations and squads exist, nothing else is stored *)

Idle ==
    [pc |-> "idle", op |-> "none", squad |-> 0, station |-> 0, type |-> "",
     amount |-> 0, rid |-> 0,
     snap |-> [wallet_found |-> FALSE, balance |-> 0, station_found |-> FALSE,
               owner |-> None, reqs |-> <<>>],
     inner |-> Response(0, "", 0)]

Init ==
    /\ wallets = {}
    /\ current_balance = [s \in Squads |-> 0]
    /\ created_balance = [s \in Squads |-> 0]
    /\ owner_id = [st \in Stations |-> None]
    /\ transactions = <<>>
    /\ requests = <<>>
    /\ sessions = [p \in Procs |-> Idle]
    /\ calls = 0
    /\ last = NoCall

----------------------------------------------------------------------------
(* Spec: every call runs from its first read to its commit in one step *)

\* Wallet(squad, initial_balance) is added for a squad that has none
CreateWallet(squad, given, initial_balance) ==
    /\ squad \notin wallets
    /\ wallets' = wallets \cup {squad}
    /\ current_balance' = [current_balance EXCEPT
                              ![squad] = Wallet_init(given, initial_balance)]
    /\ created_balance' = [created_balance EXCEPT
                              ![squad] = Wallet_init(given, initial_balance)]
    /\ last' = Finished("create_wallet", Response(0, "", 0))
    /\ UNCHANGED <<owner_id, transactions, requests, sessions, calls>>

AddBalance(squad, type, amount) ==
    LET r == add_balance(squad, type, amount, ReadRows(squad, None))
    IN  /\ Fits(r.effect)
        /\ Commit(r.effect, squad, None)
        /\ last' = Finished("add_balance", r.response)
        /\ UNCHANGED <<requests, sessions, calls>>

ChangeStationOwner(station, squad) ==
    LET r == change_station_owner(station, squad, ReadRows(squad, station))
    IN  /\ Fits(r.effect)
        /\ Commit(r.effect, squad, station)
        /\ last' = Finished("change_station_owner", r.response)
        /\ UNCHANGED <<requests, sessions, calls>>

CreatePurchaseRequest(squad, station, current_time) ==
    LET r == create_purchase_request(squad, station, current_time,
                                     ReadRows(squad, station))
    IN  /\ Fits(r.effect)
        /\ requests' = requests \o r.effect.reqs
        /\ last' = Finished("create_purchase_request", r.response)
        /\ UNCHANGED <<wallets, current_balance, created_balance, owner_id,
                       transactions, sessions, calls>>

\* process_request without lines 662-666: the status of the request is not looked at
process_request_check_NoStatus(rid, reqs) ==
    IF rid > Len(reqs)
    THEN Response(400, "request_not_found", 0)
    ELSE IF reqs[rid].type # "STATION_PURCHASE"
    THEN Response(501, "not_implemented", 0)
    ELSE Response(0, "", 0)

\* process_request, lines 655-668: the answer given before any purchase is tried,
\* or a 0 status code when the request is a CREATED purchase request
process_request_check(rid, reqs) ==
    IF rid > Len(reqs)
    THEN Response(400, "request_not_found", 0)
    ELSE IF reqs[rid].status # "CREATED"
    THEN Response(400, "already_processed", 0)
    ELSE IF reqs[rid].type # "STATION_PURCHASE"
    THEN Response(501, "not_implemented", 0)
    ELSE Response(0, "", 0)

\* lines 676-678 comparing with HTTP_200_OK: no purchase is ever marked
process_request_mark_200(reqs, rid, response) ==
    IF response.status_code = 200
    THEN [reqs EXCEPT ![rid].status = "APPROVED"]
    ELSE reqs

\* process_request, lines 676-678: the request row after the purchase answered
process_request_mark(reqs, rid, response) ==
    IF response.status_code = 201
    THEN [reqs EXCEPT ![rid].status = "APPROVED"]
    ELSE reqs

\* process_request with an exchange written into the `case _` branch the naive
\* way: the stations change hands first, the cash moves afterwards, and a
\* withdrawal that fails is answered 400 while the session still commits
ProcessRequest_NaiveExchange(rid) ==
    LET early == process_request_check(rid, requests)
    IN  IF early.status_code = 501 /\ requests[rid].type = "EXCHANGE"
        THEN LET r == requests[rid]
                 A == r.origin_squad_id
                 B == r.another_squad_id
                 mine == {r.origin_squad_stations[i] : i \in 1..Len(r.origin_squad_stations)}
                 theirs == {r.another_squad_stations[i] : i \in 1..Len(r.another_squad_stations)}
                 paid == /\ r.your_squad_withdraw <= current_balance[A]
                         /\ r.another_squad_withdraw <= current_balance[B]
             IN  /\ owner_id' = [st \in DOMAIN owner_id |->
                                    IF st \in mine THEN B
                                    ELSE IF st \in theirs THEN A
                                    ELSE owner_id[st]]
                 /\ current_balance' =
                       IF paid
                       THEN [current_balance EXCEPT
                               ![A] = @ - r.your_squad_withdraw + r.another_squad_withdraw,
                               ![B] = @ + r.your_squad_withdraw - r.another_squad_withdraw]
                       ELSE current_balance
                 /\ requests' = IF paid
                                THEN [requests EXCEPT ![rid].status = "APPROVED"]
                                ELSE requests
                 /\ last' = Finished("process_request",
                                     IF paid THEN Response(201, "", 0)
                                     ELSE Response(400, "not_enough_money", 0))
                 /\ UNCHANGED <<wallets, created_balance, transactions, sessions, calls>>
        ELSE IF early.status_code # 0
        THEN /\ last' = Finished("process_request", early)
             /\ UNCHANGED <<db, sessions, calls>>
        ELSE LET squad == squad_id(requests[rid])
                 station == requests[rid].station_id
                 r == change_station_owner(station, squad, ReadRows(squad, station))
             IN  /\ Fits(r.effect)
                 /\ Commit(r.effect, squad, station)
                 /\ requests' = process_request_mark(requests, rid, r.response)
                 /\ last' = Finished("process_request", r.response)
                 /\ UNCHANGED <<sessions, calls>>

\* process_request, lines 655-686; the purchase runs in change_station_owner's
\* own session, which commits before the request's status is written
ProcessRequest(rid) ==
    LET early == process_request_check(rid, requests)
    IN  IF early.status_code # 0
        THEN /\ last' = Finished("process_request", early)
             /\ UNCHANGED <<db, sessions, calls>>
        ELSE LET squad == squad_id(requests[rid])
                 station == requests[rid].station_id
                 r == change_station_owner(station, squad, ReadRows(squad, station))
             IN  /\ Fits(r.effect)
                 /\ Commit(r.effect, squad, station)
                 /\ requests' = process_request_mark(requests, rid, r.response)
                 /\ last' = Finished("process_request", r.response)
                 /\ UNCHANGED <<sessions, calls>>

Next ==
    \/ \E squad \in Squads, ib \in InitialBalances : CreateWallet(squad, ib[1], ib[2])
    \/ \E squad \in Squads, type \in {"deposit", "withdraw", "other"}, amount \in Amounts :
          AddBalance(squad, type, amount)
    \/ \E station \in Stations \cup {UnknownStation}, squad \in Squads \cup {ReturnSquad} :
          ChangeStationOwner(station, squad)
    \/ \E squad \in Squads, station \in Stations \cup {UnknownStation}, t \in Clock :
          CreatePurchaseRequest(squad, station, t)
    \/ \E rid \in 1..(MaxRequests + 1) : ProcessRequest(rid)

Spec == Init /\ [][Next]_vars

----------------------------------------------------------------------------
(* FundedSpec: the calls of Spec, one after another, on wallets created with *)
(* a given initial balance, so that a price or an amount meets the balance.  *)

\* Wallet(squad, initial_balance) for every squad, with one initial_balance
FundedInit ==
    /\ wallets = Squads
    /\ \E b \in StartBalances :
          /\ current_balance = [s \in Squads |-> Wallet_init(TRUE, b)]
          /\ created_balance = [s \in Squads |-> Wallet_init(TRUE, b)]
    /\ owner_id = [st \in Stations |-> None]
    /\ transactions = <<>>
    /\ requests = <<>>
    /\ sessions = [p \in Procs |-> Idle]
    /\ calls = 0
    /\ last = NoCall

FundedNext ==
    \/ \E squad \in Squads, type \in {"deposit", "withdraw"} :
          AddBalance(squad, type, 12000)
    \/ \E station \in Stations, squad \in Squads : ChangeStationOwner(station, squad)
    \/ \E squad \in Squads, station \in Stations :
          CreatePurchaseRequest(squad, station, available_after)
    \/ \E rid \in 1..MaxRequests : ProcessRequest(rid)

FundedSpec == FundedInit /\ [][FundedNext]_vars

----------------------------------------------------------------------------
(* ConcSpec: every call has its own session; a session reads the rows it    *)
(* needs, computes in memory, and writes what it computed when it commits.  *)
(* No handler locks a row or re-reads it before writing.                    *)

\* both squads have their wallet, as after Wallet(squad) for each of them
ConcInit ==
    /\ wallets = Squads
    /\ current_balance = [s \in Squads |-> Wallet_init(FALSE, 0)]
    /\ created_balance = [s \in Squads |-> Wallet_init(FALSE, 0)]
    /\ owner_id = [st \in Stations |-> None]
    /\ transactions = <<>>
    /\ requests = <<>>
    /\ sessions = [p \in Procs |-> Idle]
    /\ calls = 0
    /\ last = NoCall

Begin(p, op, squad, station, type, amount) ==
    /\ sessions[p].pc = "idle"
    /\ calls < MaxCalls
    /\ calls' = calls + 1
    /\ sessions' = [sessions EXCEPT ![p] =
                       [Idle EXCEPT !.pc = "read", !.op = op, !.squad = squad,
                                    !.station = station, !.type = type,
                                    !.amount = amount,
                                    !.snap = ReadRows(squad, station)]]
    /\ UNCHANGED <<db, last>>

End(p, r) ==
    /\ Fits(r.effect)
    /\ Commit(r.effect, sessions[p].squad, sessions[p].station)
    /\ requests' = requests \o r.effect.reqs
    /\ last' = Finished(sessions[p].op, r.response)
    /\ sessions' = [sessions EXCEPT ![p] = Idle]
    /\ UNCHANGED calls

BeginAddBalance(p, squad, type, amount) ==
    Begin(p, "add_balance", squad, None, type, amount)

EndAddBalance(p) ==
    /\ sessions[p].pc = "read"
    /\ sessions[p].op = "add_balance"
    /\ End(p, add_balance(sessions[p].squad, sessions[p].type, sessions[p].amount,
                          sessions[p].snap))

BeginChangeStationOwner(p, station, squad) ==
    Begin(p, "change_station_owner", squad, station, "", 0)

EndChangeStationOwner(p) ==
    /\ sessions[p].pc = "read"
    /\ sessions[p].op = "change_station_owner"
    /\ End(p, change_station_owner(sessions[p].station, sessions[p].squad,
                                   sessions[p].snap))

BeginCreatePurchaseRequest(p, squad, station, current_time) ==
    Begin(p, "create_purchase_request", squad, station, "", current_time)

EndCreatePurchaseRequest(p) ==
    /\ sessions[p].pc = "read"
    /\ sessions[p].op = "create_purchase_request"
    /\ End(p, create_purchase_request(sessions[p].squad, sessions[p].station,
                                      sessions[p].amount, sessions[p].snap))

\* process_request up to the call of change_station_owner (lines 655-672)
BeginProcessRequest(p, rid) ==
    /\ sessions[p].pc = "idle"
    /\ calls < MaxCalls
    /\ calls' = calls + 1
    /\ LET early == process_request_check(rid, requests)
       IN  IF early.status_code # 0
           THEN /\ last' = Finished("process_request", early)
                /\ UNCHANGED <<db, sessions>>
           ELSE /\ sessions' = [sessions EXCEPT ![p] =
                                   [Idle EXCEPT !.pc = "outer",
                                                !.op = "process_request",
                                                !.rid = rid,
                                                !.squad = squad_id(requests[rid]),
                                                !.station = requests[rid].station_id]]
                /\ UNCHANGED <<db, last>>

\* change_station_owner called by process_request opens its session and reads
InnerBegin(p) ==
    /\ sessions[p].pc = "outer"
    /\ sessions' = [sessions EXCEPT
                       ![p].pc = "inner",
                       ![p].snap = ReadRows(sessions[p].squad, sessions[p].station)]
    /\ UNCHANGED <<db, calls, last>>

\* ... and commits when its `with` block is left (line 553 or 560)
InnerEnd(p) ==
    /\ sessions[p].pc = "inner"
    /\ LET r == change_station_owner(sessions[p].station, sessions[p].squad,
                                     sessions[p].snap)
       IN  /\ Fits(r.effect)
           /\ Commit(r.effect, sessions[p].squad, sessions[p].station)
           /\ sessions' = [sessions EXCEPT ![p].pc = "marked",
                                           ![p].inner = r.response]
    /\ UNCHANGED <<requests, calls, last>>

\* process_request, lines 676-679, and the commit of its own session
EndProcessRequest(p) ==
    /\ sessions[p].pc = "marked"
    /\ requests' = process_request_mark(requests, sessions[p].rid, sessions[p].inner)
    /\ last' = Finished("process_request", sessions[p].inner)
    /\ sessions' = [sessions EXCEPT ![p] = Idle]
    /\ UNCHANGED <<wallets, current_balance, created_balance, owner_id, transactions,
                   calls>>

\* a store fault or a crash ends a session before its commit: rollback
Fault(p) ==
    /\ sessions[p].pc # "idle"
    /\ last' = Finished(sessions[p].op, Response(500, "error", 0))
    /\ sessions' = [sessions EXCEPT ![p] = Idle]
    /\ UNCHANGED <<db, calls>>

ConcNext ==
    \/ \E p \in Procs, squad \in Squads, type \in {"deposit", "withdraw"} :
          BeginAddBalance(p, squad, type, 12000)
    \/ \E p \in Procs : EndAddBalance(p)
    \/ \E p \in Procs, station \in Stations, squad \in Squads :
          BeginChangeStationOwner(p, station, squad)
    \/ \E p \in Procs : EndChangeStationOwner(p)
    \/ \E p \in Procs, squad \in Squads, station \in Stations :
          BeginCreatePurchaseRequest(p, squad, station, available_after)
    \/ \E p \in Procs : EndCreatePurchaseRequest(p)
    \/ \E p \in Procs, rid \in 1..MaxRequests : BeginProcessRequest(p, rid)
    \/ \E p \in Procs : InnerBegin(p)
    \/ \E p \in Procs : InnerEnd(p)
    \/ \E p \in Procs : EndProcessRequest(p)
    \/ \E p \in Procs : Fault(p)

ConcSpec == ConcInit /\ [][ConcNext]_vars

\* ApproveSpec: the sessions of ConcSpec, with process_request the only call;
\* each station has one Created purchase request, as after two calls of
\* create_purchase_request
ApproveInit ==
    /\ wallets = Squads
    /\ current_balance = [s \in Squads |-> Wallet_init(FALSE, 0)]
    /\ created_balance = [s \in Squads |-> Wallet_init(FALSE, 0)]
    /\ owner_id = [st \in Stations |-> None]
    /\ transactions = <<>>
    /\ \E s1 \in Squads, s2 \in Squads :
          requests = <<PurchaseStationRequest(s1, 1), PurchaseStationRequest(s2, 2)>>
    /\ sessions = [p \in Procs |-> Idle]
    /\ calls = 0
    /\ last = NoCall

ApproveNext ==
    \/ \E p \in Procs, rid \in 1..MaxRequests : BeginProcessRequest(p, rid)
    \/ \E p \in Procs : InnerBegin(p)
    \/ \E p \in Procs : InnerEnd(p)
    \/ \E p \in Procs : EndProcessRequest(p)
    \/ \E p \in Procs : Fault(p)

ApproveSpec == ApproveInit /\ [][ApproveNext]_vars

----------------------------------------------------------------------------
(* models/metro.py: the read queries of a Line.  LineSpec calls them on every *)
(* ownership of three stations: stations 1 and 2 are on line 1, station 3 is *)
(* on line 2, line 3 has no station.                                         *)

Lines == {1, 2, 3}
LineStations == {1, 2, 3}

\* Station.line_id
line_id(st) == IF st = 3 THEN 2 ELSE 1

\* Line.full_line_coef, default 1.2, as <<numerator, denominator>>
full_line_coef == <<12, 10>>

\* Squad.number
number(squad) == squad

\* Line.stations
stations_of_line(line) == {st \in LineStations : line_id(st) = line}

\* Squad.stations: the stations whose owner is the squad, on any line
stations_of_squad(squad, owner) == {st \in DOMAIN owner : owner[st] = squad}

\* sum(station.initial_price for station in self.stations)
RECURSIVE sum_initial_price(_)
sum_initial_price(todo) ==
    IF todo = {}
    THEN 0
    ELSE LET station == CHOOSE st \in todo : TRUE
         IN  initial_price(station) + sum_initial_price(todo \ {station})

\* Squad.get_full_balance, models/camp.py lines 51-54
get_full_balance(squad, balance, owner) ==
    balance[squad] + sum_initial_price(stations_of_squad(squad, owner))

\* math.floor(sum * coef); for the sums of the model the float product is exact
\* enough for the floor to be that of the rational product
floor_times(sum, coef) == (sum * coef[1]) \div coef[2]

\* the loop of lines 40-42 over the stations in `todo`
RECURSIVE sum_loop(_, _, _, _)
sum_loop(todo, sum, squad, owner) ==
    IF todo = {}
    THEN sum
    ELSE LET station == CHOOSE st \in todo : \A other \in todo : st <= other
         IN  sum_loop(todo \ {station},
                      IF owner[station] = squad
                      THEN sum + initial_price(station) ELSE sum,
                      squad, owner)

\* the loop of lines 50-55 over the stations in `todo`; the dict is a function
\* whose keys are tagged with what they are: line 52 looks a Station up among
\* keys that are squad numbers
RECURSIVE number_loop(_, _, _)
number_loop(todo, result, owner) ==
    IF todo = {}
    THEN result
    ELSE LET station == CHOOSE st \in todo : \A other \in todo : st <= other
             key == <<"number", number(owner[station])>>
         IN  number_loop(
                 todo \ {station},
                 IF owner[station] = None
                 THEN result
                 ELSE IF <<"station", station>> \notin DOMAIN result
                 THEN [k \in DOMAIN result \cup {key} |->
                          IF k = key THEN 0 ELSE result[k]]
                 ELSE [result EXCEPT ![key] = @ + 1],
                 owner)

\* Line.get_number_of_stations_owned_by_squads
get_number_of_stations_owned_by_squads(line, owner) ==
    number_loop(stations_of_line(line), <<>>, owner)

\* Line.get_number_of_station_owners
get_number_of_station_owners(line, owner) ==
    Cardinality(DOMAIN get_number_of_stations_owned_by_squads(line, owner))

\* Line.is_all_stations_bought
is_all_stations_bought(line, owner) ==
    \A st \in stations_of_line(line) : owner[st] # None

\* is_owned_by_one_squad without the is_all_stations_bought() of line 69
is_owned_by_one_squad_NoAllBought(line, owner) ==
    Cardinality(DOMAIN get_number_of_stations_owned_by_squads(line, owner)) = 1

\* Line.is_owned_by_one_squad
is_owned_by_one_squad(line, owner) ==
    /\ is_all_stations_bought(line, owner)
    /\ Cardinality(DOMAIN get_number_of_stations_owned_by_squads(line, owner)) = 1

\* Line.get_sum_of_stations_by_squad
get_sum_of_stations_by_squad(line, squad, owner) ==
    LET sum == sum_loop(stations_of_squad(squad, owner), 0, squad, owner)
    IN  IF is_owned_by_one_squad(line, owner)
        THEN floor_times(sum, full_line_coef)
        ELSE sum

\* what a read query answered: the arguments and the value returned
Returned(op, line, squad, value) ==
    [op |-> op, response |-> [line |-> line, squad |-> squad, value |-> value]]

\* every squad has its wallet and the three stations have any owners
LineInit ==
    /\ wallets = Squads
    /\ current_balance = [s \in Squads |-> Wallet_init(FALSE, 0)]
    /\ created_balance = [s \in Squads |-> Wallet_init(FALSE, 0)]
    /\ owner_id \in [LineStations -> Squads \cup {None}]
    /\ transactions = <<>>
    /\ requests = <<>>
    /\ sessions = [p \in Procs |-> Idle]
    /\ calls = 0
    /\ last = NoCall

GetSumOfStationsBySquad(line, squad) ==
    /\ last' = Returned("get_sum_of_stations_by_squad", line, squad,
                        get_sum_of_stations_by_squad(line, squad, owner_id))
    /\ UNCHANGED <<db, sessions, calls>>

GetNumberOfStationsOwnedBySquads(line) ==
    /\ last' = Returned("get_number_of_stations_owned_by_squads", line, None,
                        get_number_of_stations_owned_by_squads(line, owner_id))
    /\ UNCHANGED <<db, sessions, calls>>

IsOwnedByOneSquad(line) ==
    /\ last' = Returned("is_owned_by_one_squad", line, None,
                        is_owned_by_one_squad(line, owner_id))
    /\ UNCHANGED <<db, sessions, calls>>

LineNext ==
    \/ \E line \in Lines, squad \in Squads : GetSumOfStationsBySquad(line, squad)
    \/ \E line \in Lines : GetNumberOfStationsOwnedBySquads(line)
    \/ \E line \in Lines : IsOwnedByOneSquad(line)

LineSpec == LineInit /\ [][LineNext]_vars

----------------------------------------------------------------------------
(* models/money.py: ExchangeRequest.  No handler of main.py builds one;       *)
(* ExchangeSpec stores the requests that ExchangeRequest.__init__ builds and *)
(* lets process_request run on them.                                         *)

\* ExchangeRequest.__init__ (after SquadRequest.__init__)
ExchangeRequest(squad, another_squad, your_squad_station_ids, your_squad_withdraw, another_squad_station_ids, another_squad_withdraw) ==
    [type |-> "EXCHANGE", status |-> "CREATED",
     origin_squad_id |-> squad,
     another_squad_id |-> another_squad,
     your_squad_withdraw |-> your_squad_withdraw,
     origin_squad_stations |-> your_squad_station_ids,
     another_squad_stations |-> another_squad_station_ids,
     another_squad_withdraw |-> another_squad_withdraw]

\* the station id lists offered by the two sides
ExchangeStationIds == {<<<<1, 2>>, <<3>>>>, <<<<3>>, <<1, 2>>>>}

\* the cash either side adds: nothing, less than a new wallet holds, more
ExchangeCash == {0, INITIAL_BALANCE \div 10, INITIAL_BALANCE + INITIAL_BALANCE \div 10}

\* squad 1 owns stations 1 and 2; station 3 is owned by squad 2 or by nobody
ExchangeInit ==
    /\ wallets = Squads
    /\ current_balance = [s \in Squads |-> Wallet_init(FALSE, 0)]
    /\ created_balance = [s \in Squads |-> Wallet_init(FALSE, 0)]
    /\ \E o \in {2, None} : owner_id = [st \in LineStations |-> IF st = 3 THEN o ELSE 1]
    /\ transactions = <<>>
    /\ requests = <<>>
    /\ sessions = [p \in Procs |-> Idle]
    /\ calls = 0
    /\ last = NoCall

\* an ExchangeRequest is built and added to table requests
CreateExchangeRequest(squad, another_squad, your_squad_station_ids, your_squad_withdraw, another_squad_station_ids, another_squad_withdraw) ==
    /\ Len(requests) < MaxRequests
    /\ requests' = Append(requests,
                          ExchangeRequest(squad, another_squad, your_squad_station_ids,
                                          your_squad_withdraw, another_squad_station_ids,
                                          another_squad_withdraw))
    /\ last' = Finished("ExchangeRequest", Response(0, "", 0))
    /\ UNCHANGED <<wallets, current_balance, created_balance, owner_id, transactions,
                   sessions, calls>>

ExchangeNext ==
    \/ \E squad \in Squads, another_squad \in Squads, ids \in ExchangeStationIds,
          your_squad_withdraw \in ExchangeCash,
          another_squad_withdraw \in ExchangeCash \ {INITIAL_BALANCE \div 10} :
          /\ squad # another_squad
          /\ CreateExchangeRequest(squad, another_squad, ids[1], your_squad_withdraw,
                                   ids[2], another_squad_withdraw)
    \/ \E rid \in 1..(MaxRequests + 1) : ProcessRequest(rid)

ExchangeSpec == ExchangeInit /\ [][ExchangeNext]_vars

----------------------------------------------------------------------------
(* Properties *)

\* sum of the amounts of the Completed transactions of one type of a wallet
RECURSIVE CompletedSum(_, _, _, _)
CompletedSum(txs, i, wallet, type) ==
    IF i > Len(txs)
    THEN 0
    ELSE (IF txs[i].wallet = wallet /\ txs[i].type = type /\ txs[i].status = "completed"
          THEN txs[i].amount ELSE 0)
         + CompletedSum(txs, i + 1, wallet, type)

Deposited(wallet) == CompletedSum(transactions, 1, wallet, "deposit")
Withdrawn(wallet) == CompletedSum(transactions, 1, wallet, "withdrawal")

LastTx == transactions[Len(transactions)]

\* C1, as stated: every wallet's current_balance equals the sum of its Completed
\* deposits minus the sum of its Completed withdrawals.
C1_BalanceIsDepositsMinusWithdrawals ==
    \A s \in wallets : current_balance[s] = Deposited(s) - Withdrawn(s)

\* C1, amended: every wallet's current_balance equals the balance the wallet was
\* created with plus its Completed deposits minus its Completed withdrawals.
C1_BalanceIsCreatedPlusDepositsMinusWithdrawals ==
    \A s \in wallets :
        current_balance[s] = created_balance[s] + Deposited(s) - Withdrawn(s)

\* a wallet with a Completed deposit and a Completed withdrawal in its history
C1_Witness ==
    \E s \in wallets :
        /\ \E i \in 1..Len(transactions) :
              /\ transactions[i].wallet = s
              /\ transactions[i].type = "deposit"
              /\ transactions[i].status = "completed"
        /\ \E j \in 1..Len(transactions) :
              /\ transactions[j].wallet = s
              /\ transactions[j].type = "withdrawal"
              /\ transactions[j].status = "completed"
              /\ transactions[j].reason[1] = "purchase"

\* C2: every wallet's current_balance is >= 0 in every reachable state.
C2_BalanceNeverNegative ==
    \A s \in wallets : current_balance[s] >= 0

\* what C3 says of a call that executes a Withdrawal of `amount` on `squad`
C3_Refused(squad, amount) ==
    /\ current_balance'[squad] = current_balance[squad]
    /\ Len(transactions') = Len(transactions) + 1
    /\ transactions'[Len(transactions')].wallet = squad
    /\ transactions'[Len(transactions')].type = "withdrawal"
    /\ transactions'[Len(transactions')].amount = amount
    /\ transactions'[Len(transactions')].status = "failed"
    /\ last'.response.status_code = 400
    /\ last'.response.message = "insufficient_funds"
    /\ last'.response.deficit = amount - current_balance[squad]

\* C3: a Withdrawal whose amount is greater than the wallet's current_balance
\* (executed by add_balance or by change_station_owner) leaves current_balance
\* unchanged, is stored with status Failed, and the error answered carries
\* deficit = amount - balance.
C3_WithdrawalOverBalanceFails ==
    [][ /\ last'.op = "add_balance"
              => \A squad \in Squads, amount \in Amounts :
                   ( /\ squad \in wallets
                     /\ amount > current_balance[squad]
                     /\ AddBalance(squad, "withdraw", amount) )
                   => C3_Refused(squad, amount)
        /\ last'.op = "change_station_owner"
              => \A station \in Stations, squad \in Squads :
                   ( /\ squad \in wallets
                     /\ owner_id[station] = None
                     /\ initial_price(station) > current_balance[squad]
                     /\ ChangeStationOwner(station, squad) )
                   => C3_Refused(squad, initial_price(station))
      ]_vars

\* balance 10000, withdraw 12000: balance 10000, Failed, deficit 2000
C3_Witness ==
    /\ last = Finished("add_balance", Response(400, "insufficient_funds", 2000))
    /\ Len(transactions) > 0
    /\ LastTx.type = "withdrawal"
    /\ LastTx.amount = 12000
    /\ LastTx.status = "failed"
    /\ LastTx.comment = <<"insufficient", 10000, 2000>>
    /\ current_balance[LastTx.wallet] = 10000

\* C4: approving a Created purchase request whose station is unowned and whose
\* price is <= the squad's balance decreases the balance by exactly the price,
\* makes the squad the station's owner, stores a Completed Withdrawal of the
\* price and sets the request to Approved.
C4_ApprovalBuysStation ==
    [][ \A rid \in 1..MaxRequests :
          ( /\ rid <= Len(requests)
            /\ requests[rid].type = "STATION_PURCHASE"
            /\ requests[rid].status = "CREATED"
            /\ owner_id[requests[rid].station_id] = None
            /\ squad_id(requests[rid]) \in wallets
            /\ initial_price(requests[rid].station_id)
                  <= current_balance[squad_id(requests[rid])]
            /\ ProcessRequest(rid) )
          => ( /\ current_balance'[squad_id(requests[rid])]
                    = current_balance[squad_id(requests[rid])]
                      - initial_price(requests[rid].station_id)
               /\ owner_id'[requests[rid].station_id] = squad_id(requests[rid])
               /\ Len(transactions') = Len(transactions) + 1
               /\ transactions'[Len(transactions')].wallet = squad_id(requests[rid])
               /\ transactions'[Len(transactions')].type = "withdrawal"
               /\ transactions'[Len(transactions')].amount
                    = initial_price(requests[rid].station_id)
               /\ transactions'[Len(transactions')].status = "completed"
               /\ requests'[rid].status = "APPROVED"
               /\ last'.response.status_code = 201 )
      ]_vars

\* balance 10000, price 5000: the request is Approved and the balance is 5000
C4_Witness ==
    /\ last = Finished("process_request", Response(201, "station_bought", 0))
    /\ \E rid \in 1..Len(requests) :
          /\ requests[rid].status = "APPROVED"
          /\ owner_id[requests[rid].station_id] = squad_id(requests[rid])
          /\ current_balance[squad_id(requests[rid])] = 5000
          /\ Len(transactions) > 0
          /\ LastTx.wallet = squad_id(requests[rid])
          /\ LastTx.status = "completed"
          /\ LastTx.comment = <<"withdrawal", 10000, 5000>>

\* C5: a purchase approval is one atomic unit: no committed state holds the
\* withdrawal and the owner assignment of a process_request call without the
\* request being Approved.
C5_ApprovalIsAtomic ==
    \A p \in Procs :
        ( /\ sessions[p].op = "process_request"
          /\ sessions[p].pc = "marked"
          /\ sessions[p].inner.status_code = 201 )
        => requests[sessions[p].rid].status = "APPROVED"

\* C6: when the approval of a Created purchase request fails because the
\* withdrawal of the price fails for insufficient funds, the request is marked
\* Rejected (stated for histories in which every amount is positive).
C6_FailedApprovalRejects ==
    [][ \A rid \in 1..MaxRequests :
          ( /\ rid <= Len(requests)
            /\ \A i \in 1..Len(transactions) : transactions[i].amount > 0
            /\ requests[rid].type = "STATION_PURCHASE"
            /\ requests[rid].status = "CREATED"
            /\ ProcessRequest(rid)
            /\ last'.response.message = "insufficient_funds" )
          => requests'[rid].status = "REJECTED"
      ]_vars

\* C7: of two purchase requests that target the same station, never more than
\* one is Approved.
C7_OneApprovedPerStation ==
    \A i, j \in 1..Len(requests) :
        ( /\ i < j
          /\ requests[i].station_id = requests[j].station_id )
        => ~(requests[i].status = "APPROVED" /\ requests[j].status = "APPROVED")

\* C8: at no time do two Created purchase requests for the same station exist.
C8_OneCreatedRequestPerStation ==
    \A i, j \in 1..Len(requests) :
        ( /\ i < j
          /\ requests[i].station_id = requests[j].station_id )
        => ~(requests[i].status = "CREATED" /\ requests[j].status = "CREATED")

\* C9: once the concurrent balance-changing calls have finished, every wallet's
\* current_balance is its initial balance plus all Completed deposits minus all
\* Completed withdrawals.
C9_NoLostUpdate ==
    (\A p \in Procs : sessions[p].pc = "idle")
    => \A s \in wallets :
         current_balance[s] = created_balance[s] + Deposited(s) - Withdrawn(s)

\* C10: no squad has a Completed purchase withdrawal for a station it does not
\* own.
C10_ChargedSquadOwnsStation ==
    \A i \in 1..Len(transactions) :
        ( /\ transactions[i].type = "withdrawal"
          /\ transactions[i].status = "completed"
          /\ transactions[i].reason[1] = "purchase" )
        => owner_id[transactions[i].reason[2]] = transactions[i].wallet

\* C11: request statuses move one way, Created -> {Approved, Rejected}: a request
\* that is not Created never changes again, and process_request on a request
\* that is not Created answers 400 'already processed' and changes no balance,
\* no station owner, no transaction and no request.
C11_StatusIsOneWay ==
    [][ /\ Len(requests') >= Len(requests)
        /\ \A rid \in 1..Len(requests) :
              /\ requests[rid].status # "CREATED" => requests'[rid] = requests[rid]
              /\ requests'[rid].status \in {requests[rid].status, "APPROVED", "REJECTED"}
        /\ last'.op = "process_request"
              => \A rid \in 1..MaxRequests :
                   ( /\ rid <= Len(requests)
                     /\ requests[rid].status # "CREATED"
                     /\ ProcessRequest(rid) )
                   => ( /\ last' = Finished("process_request",
                                            Response(400, "already_processed", 0))
                        /\ UNCHANGED db )
      ]_vars

\* process_request was called on an Approved request and answered 'already processed'
C11_Witness ==
    /\ last = Finished("process_request", Response(400, "already_processed", 0))
    /\ \E rid \in 1..Len(requests) :
          /\ requests[rid].status = "APPROVED"
          /\ owner_id[requests[rid].station_id] = squad_id(requests[rid])

\* C12: create_purchase_request for a station that already has an owner fails
\* (no 201 answer) and persists no request, whether the station was bought
\* through a request or assigned directly by an administrator.
C12_OwnedStationIsRefused ==
    [][ \A squad \in Squads, station \in Stations, t \in Clock :
          ( /\ owner_id[station] # None
            /\ CreatePurchaseRequest(squad, station, t) )
          => ( /\ last'.response.status_code # 201
               /\ requests' = requests )
      ]_vars

RECURSIVE ReservedFrom(_, _, _)
ReservedFrom(i, squad, station) ==
    IF i > Len(requests)
    THEN 0
    ELSE (IF /\ requests[i].status = "CREATED"
             /\ squad_id(requests[i]) = squad
             /\ requests[i].station_id # station
          THEN initial_price(requests[i].station_id) ELSE 0)
         + ReservedFrom(i + 1, squad, station)

\* a create_purchase_request call that no earlier validation refuses
C14_ReachesFundsCheck(squad, station, t) ==
    /\ available_after <= t /\ t <= available_until
    /\ squad \in wallets
    /\ \A i \in 1..Len(requests) : requests[i].station_id # station

\* C14: create_purchase_request answers InsufficientFunds exactly when the
\* squad's balance is less than the station's price plus the prices of the
\* stations of the squad's other Created requests (and no earlier validation
\* refuses the call); a balance below that total never gets a request stored,
\* and a balance equal to the total is accepted.
C14_InsufficientFundsExactly ==
    [][ \A squad \in Squads, station \in Stations, t \in Clock :
          CreatePurchaseRequest(squad, station, t)
          => LET total == initial_price(station) + ReservedFrom(1, squad, station)
                 short == squad \in wallets /\ current_balance[squad] < total
             IN  /\ (last'.response.message = "insufficient_funds")
                       <=> (C14_ReachesFundsCheck(squad, station, t) /\ short)
                 /\ last'.response.message = "insufficient_funds"
                       => /\ last'.response.status_code = 400
                          /\ last'.response.deficit = total - current_balance[squad]
                 /\ short => requests' = requests
                 /\ (C14_ReachesFundsCheck(squad, station, t) /\ ~short)
                       => /\ last'.response.status_code = 201
                          /\ requests' = Append(requests,
                                                PurchaseStationRequest(squad, station))
      ]_vars

\* balance 11000, Created requests for station 1 (5000) and station 2 (6000) of
\* the same squad: the second one was accepted with balance = total
C14_Witness ==
    /\ last = Finished("create_purchase_request", Response(201, "request_created", 0))
    /\ Len(requests) = 2
    /\ requests[1].status = "CREATED"
    /\ requests[2].status = "CREATED"
    /\ squad_id(requests[1]) = squad_id(requests[2])
    /\ current_balance[squad_id(requests[2])]
         = initial_price(requests[1].station_id) + initial_price(requests[2].station_id)

\* C15: create_purchase_request answers OutsideAllowedWindow whenever the time
\* of day is before 20:30 or after 23:30, never for that reason at a time in
\* [20:30, 23:30] (both ends included), and a refused call persists no request.
C15_WindowIsInclusive ==
    [][ last'.op = "create_purchase_request"
        => \A squad \in Squads, station \in Stations \cup {UnknownStation}, t \in Clock :
          CreatePurchaseRequest(squad, station, t)
          => LET opens == 20 * 3600 + 30 * 60
                 closes == 23 * 3600 + 30 * 60
             IN  /\ (t < opens \/ t > closes)
                       => /\ last'.response = Response(400, "outside_window", 0)
                          /\ requests' = requests
                 /\ (opens <= t /\ t <= closes)
                       => last'.response.message # "outside_window"
                 /\ last'.response.status_code # 201 => requests' = requests
      ]_vars

\* a call at a time outside the window was refused with nothing stored; the
\* squad had the funds and the station had no request
C15_Witness ==
    /\ last = Finished("create_purchase_request", Response(400, "outside_window", 0))
    /\ requests = <<>>
    /\ \E s \in wallets : current_balance[s] >= initial_price(1)

\* C16: a create_purchase_request call that passes validation persists exactly
\* one new request, in status Created, for the caller's squad and the given
\* station, and changes no wallet, no balance, no transaction and no owner.
C16_CreationOnlyAddsTheRequest ==
    [][ last'.op = "create_purchase_request"
        => \A squad \in Squads, station \in Stations, t \in Clock :
          ( /\ last'.response.status_code = 201
            /\ CreatePurchaseRequest(squad, station, t) )
          => ( /\ Len(requests') = Len(requests) + 1
               /\ \A i \in 1..Len(requests) : requests'[i] = requests[i]
               /\ requests'[Len(requests')].type = "STATION_PURCHASE"
               /\ requests'[Len(requests')].status = "CREATED"
               /\ squad_id(requests'[Len(requests')]) = squad
               /\ requests'[Len(requests')].station_id = station
               /\ UNCHANGED <<wallets, current_balance, created_balance, owner_id,
                              transactions>> )
      ]_vars

\* a second request was accepted after a purchase had moved money and ownership
C16_Witness ==
    /\ last = Finished("create_purchase_request", Response(201, "request_created", 0))
    /\ Len(requests) = 2
    /\ requests[1].status = "APPROVED"
    /\ requests[2].status = "CREATED"
    /\ Len(transactions) = 1
    /\ owner_id[requests[2].station_id] = None

\* C17: the station's ownership is validated again at approval: process_request
\* on a Created purchase request whose station has an owner by then answers
\* 400 'station already bought', stores no Withdrawal, and changes no balance,
\* no owner and no request.
C17_ApprovalRevalidatesOwner ==
    [][ last'.op = "process_request"
        => \A rid \in 1..MaxRequests :
          ( /\ rid <= Len(requests)
            /\ requests[rid].type = "STATION_PURCHASE"
            /\ requests[rid].status = "CREATED"
            /\ squad_id(requests[rid]) \in wallets
            /\ owner_id[requests[rid].station_id] # None
            /\ ProcessRequest(rid) )
          => ( /\ last' = Finished("process_request",
                                   Response(400, "station_already_bought", 0))
               /\ UNCHANGED db )
      ]_vars

\* squad 1 requested a station, the other squad was given it directly, and the
\* approval of the request was refused: only the other squad paid
C17_Witness ==
    /\ last = Finished("process_request", Response(400, "station_already_bought", 0))
    /\ Len(requests) = 1
    /\ requests[1].status = "CREATED"
    /\ owner_id[requests[1].station_id] \notin {None, squad_id(requests[1])}
    /\ current_balance[squad_id(requests[1])] = created_balance[squad_id(requests[1])]
    /\ Len(transactions) = 1
    /\ transactions[1].wallet = owner_id[requests[1].station_id]

\* what C18 says of a call that executes a Withdrawal of `amount` on `squad`
C18_Debited(squad, amount) ==
    /\ current_balance'[squad] = current_balance[squad] - amount
    /\ \A s \in Squads \ {squad} : current_balance'[s] = current_balance[s]
    /\ Len(transactions') = Len(transactions) + 1
    /\ transactions'[Len(transactions')].wallet = squad
    /\ transactions'[Len(transactions')].type = "withdrawal"
    /\ transactions'[Len(transactions')].amount = amount
    /\ transactions'[Len(transactions')].status = "completed"
    /\ last'.response.status_code = 201

\* C18: a Withdrawal with 0 < amount <= current_balance (amount = current_balance
\* included), executed by add_balance or by change_station_owner, decreases
\* current_balance by exactly amount and is stored with status Completed.
C18_WithdrawalWithinBalanceCompletes ==
    [][ /\ \A squad \in Squads, amount \in Amounts :
              ( /\ squad \in wallets
                /\ 0 < amount
                /\ amount <= current_balance[squad]
                /\ AddBalance(squad, "withdraw", amount) )
              => C18_Debited(squad, amount)
        /\ \A station \in Stations, squad \in Squads :
              ( /\ squad \in wallets
                /\ owner_id[station] = None
                /\ initial_price(station) <= current_balance[squad]
                /\ ChangeStationOwner(station, squad) )
              => C18_Debited(squad, initial_price(station))
      ]_vars

\* balance 12000, withdraw 12000: Completed, balance 0
C18_Witness ==
    /\ last = Finished("add_balance", Response(201, "balance_updated", 0))
    /\ Len(transactions) > 0
    /\ LastTx.type = "withdrawal"
    /\ LastTx.amount = 12000
    /\ LastTx.status = "completed"
    /\ LastTx.comment = <<"withdrawal", 12000, 0>>
    /\ current_balance[LastTx.wallet] = 0

\* C19: a Deposit with amount > 0 always succeeds, whatever the balance was: it
\* increases the wallet's current_balance by exactly amount, touches no other
\* wallet, and is stored with status Completed.
C19_DepositAlwaysCredits ==
    [][ last'.op = "add_balance"
        => \A squad \in Squads, amount \in Amounts :
          ( /\ squad \in wallets
            /\ amount > 0
            /\ AddBalance(squad, "deposit", amount) )
          => ( /\ current_balance'[squad] = current_balance[squad] + amount
               /\ \A s \in Squads \ {squad} : current_balance'[s] = current_balance[s]
               /\ Len(transactions') = Len(transactions) + 1
               /\ transactions'[Len(transactions')].wallet = squad
               /\ transactions'[Len(transactions')].type = "deposit"
               /\ transactions'[Len(transactions')].amount = amount
               /\ transactions'[Len(transactions')].status = "completed"
               /\ last' = Finished("add_balance", Response(201, "balance_updated", 0)) )
      ]_vars

\* a deposit of 12000 on a wallet whose balance was negative
C19_Witness ==
    /\ last = Finished("add_balance", Response(201, "balance_updated", 0))
    /\ Len(transactions) > 0
    /\ LastTx.type = "deposit"
    /\ LastTx.amount = 12000
    /\ LastTx.status = "completed"
    /\ LastTx.comment[2] < 0
    /\ current_balance[LastTx.wallet] = LastTx.comment[2] + 12000

\* C20: a Transaction is built with status Created and is stored after its one
\* change of status, to Completed or to Failed; a stored Transaction is never
\* changed (status and amount included) and never removed: the history only
\* grows, across add_balance, change_station_owner and process_request calls.
C20_HistoryIsAppendOnly ==
    [][ /\ \A squad \in Squads, amount \in Amounts :
              /\ Transaction(squad, "deposit", amount, <<"manual">>).status = "created"
              /\ Transaction(squad, "withdrawal", amount, <<"manual">>).status = "created"
        /\ Len(transactions') >= Len(transactions)
        /\ \A i \in 1..Len(transactions) : transactions'[i] = transactions[i]
        /\ \A i \in 1..Len(transactions') :
              transactions'[i].status \in {"completed", "failed"}
      ]_vars

\* a Failed withdrawal stayed in the history, unchanged, below a later Completed
\* transaction of the same wallet
C20_Witness ==
    /\ Len(transactions) = 2
    /\ transactions[1].status = "failed"
    /\ transactions[1].comment[1] = "insufficient"
    /\ transactions[2].status = "completed"
    /\ transactions[2].wallet = transactions[1].wallet

RECURSIVE PriceSum(_)
PriceSum(sts) ==
    IF sts = {}
    THEN 0
    ELSE LET st == CHOOSE x \in sts : TRUE
         IN  initial_price(st) + PriceSum(sts \ {st})

\* the squad owns every station of the line
OwnsWholeLine(line, squad) ==
    \A st \in stations_of_line(line) : owner_id[st] = squad

\* C22: Line.get_sum_of_stations_by_squad(squad) returns the sum multiplied by
\* the line's coefficient and floored if and only if that squad owns every
\* station on the line; in every other case, a different squad owning the
\* whole line included, it returns the unmultiplied sum.
C22_BonusOnlyForTheOwnerOfTheLine ==
    last.op = "get_sum_of_stations_by_squad"
    => LET line == last.response.line
           squad == last.response.squad
           sum == PriceSum(stations_of_squad(squad, owner_id))
       IN  last.response.value
             = IF stations_of_line(line) # {} /\ OwnsWholeLine(line, squad)
               THEN floor_times(sum, full_line_coef)
               ELSE sum

\* C23: the sum of Line.get_sum_of_stations_by_squad(squad) counts the
\* initial_price of exactly the stations on that line owned by that squad
\* (multiplied, when the code multiplies, by the line's coefficient).
C23_SumCountsTheLineOnly ==
    last.op = "get_sum_of_stations_by_squad"
    => LET line == last.response.line
           squad == last.response.squad
           sum == PriceSum(stations_of_squad(squad, owner_id)
                             \cap stations_of_line(line))
       IN  last.response.value
             = IF is_owned_by_one_squad(line, owner_id)
               THEN floor_times(sum, full_line_coef)
               ELSE sum

\* one of the two withdrawals of the exchange request exceeds its wallet
WouldFail(r) ==
    \/ r.your_squad_withdraw > current_balance[r.origin_squad_id]
    \/ r.another_squad_withdraw > current_balance[r.another_squad_id]

OwnsAll(squad, ids) == \A i \in 1..Len(ids) : owner_id[ids[i]] = squad

\* C25: approving an exchange request in which each side owns what it offers
\* and can pay what it adds hands the origin squad's stations to the other
\* squad and the other squad's stations to the origin squad, and moves the cash
\* between the two wallets, so that the two balances keep their total (squad 1
\* offering stations 1 and 2 plus 1000 for station 3 of squad 2 is one case).
C25_ExchangeSwapsStationsAndCash ==
    [][ last'.op = "process_request"
          => \A rid \in 1..MaxRequests :
               ( /\ rid <= Len(requests)
                 /\ requests[rid].type = "EXCHANGE"
                 /\ requests[rid].status = "CREATED"
                 /\ OwnsAll(requests[rid].origin_squad_id,
                            requests[rid].origin_squad_stations)
                 /\ OwnsAll(requests[rid].another_squad_id,
                            requests[rid].another_squad_stations)
                 /\ requests[rid].your_squad_withdraw
                      <= current_balance[requests[rid].origin_squad_id]
                 /\ requests[rid].another_squad_withdraw
                      <= current_balance[requests[rid].another_squad_id]
                 /\ ProcessRequest(rid) )
               => LET r == requests[rid]
                      A == r.origin_squad_id
                      B == r.another_squad_id
                  IN  /\ \A i \in 1..Len(r.origin_squad_stations) :
                            owner_id'[r.origin_squad_stations[i]] = B
                      /\ \A i \in 1..Len(r.another_squad_stations) :
                            owner_id'[r.another_squad_stations[i]] = A
                      /\ current_balance'[A] = current_balance[A]
                            - r.your_squad_withdraw + r.another_squad_withdraw
                      /\ current_balance'[B] = current_balance[B]
                            + r.your_squad_withdraw - r.another_squad_withdraw
      ]_vars

\* C26: an exchange request is stored only when every station of each offered
\* list is owned by the squad that offers it; otherwise table requests is left
\* as it was.
C26_UnownedOfferIsRefused ==
    [][ last'.op = "ExchangeRequest"
          => \/ requests' = requests
             \/ LET r == requests'[Len(requests')]
                IN  /\ OwnsAll(r.origin_squad_id, r.origin_squad_stations)
                    /\ OwnsAll(r.another_squad_id, r.another_squad_stations)
      ]_vars

\* what C28 says of a purchase by the squad of the station whose price exceeds
\* the squad's balance: one Failed Withdrawal with a comment is appended, and
\* every balance and every owner stays as it was
C28_FailedPurchaseStored(squad, station) ==
    /\ Len(transactions') = Len(transactions) + 1
    /\ SubSeq(transactions', 1, Len(transactions)) = transactions
    /\ LET t == transactions'[Len(transactions')]
       IN  /\ t.wallet = squad
           /\ t.type = "withdrawal"
           /\ t.amount = initial_price(station)
           /\ t.status = "failed"
           /\ t.comment = <<"insufficient", current_balance[squad],
                            initial_price(station) - current_balance[squad]>>
    /\ current_balance' = current_balance
    /\ owner_id' = owner_id

\* C28: when the withdrawal inside a purchase (change_station_owner, called
\* directly or by process_request) fails for insufficient funds, the stored
\* state afterwards contains that Withdrawal with status Failed and a comment,
\* and the wallet balance and the station's owner are what they were before.
C28_FailedPurchaseKeepsBalanceAndOwner ==
    [][ /\ last'.op = "change_station_owner"
          => \A station \in Stations, squad \in Squads :
               ( /\ squad \in wallets
                 /\ owner_id[station] = None
                 /\ initial_price(station) > current_balance[squad]
                 /\ ChangeStationOwner(station, squad) )
               => C28_FailedPurchaseStored(squad, station)
        /\ last'.op = "process_request"
          => \A rid \in 1..MaxRequests :
               ( /\ rid <= Len(requests)
                 /\ requests[rid].type = "STATION_PURCHASE"
                 /\ requests[rid].status = "CREATED"
                 /\ squad_id(requests[rid]) \in wallets
                 /\ owner_id[requests[rid].station_id] = None
                 /\ initial_price(requests[rid].station_id)
                       > current_balance[squad_id(requests[rid])]
                 /\ ProcessRequest(rid) )
               => C28_FailedPurchaseStored(squad_id(requests[rid]),
                                           requests[rid].station_id)
      ]_vars

\* process_request has tried a purchase that the balance could not pay: the
\* Failed Withdrawal is the last stored transaction and the station is unowned
C28_Witness ==
    /\ last.op = "process_request"
    /\ last.response.status_code = 400
    /\ last.response.message = "insufficient_funds"
    /\ Len(transactions) > 0
    /\ LastTx.type = "withdrawal"
    /\ LastTx.status = "failed"
    /\ LastTx.amount > current_balance[LastTx.wallet]
    /\ \E rid \in 1..Len(requests) :
          /\ squad_id(requests[rid]) = LastTx.wallet
          /\ initial_price(requests[rid].station_id) = LastTx.amount
          /\ owner_id[requests[rid].station_id] = None

\* the Completed Withdrawals stored for the purchase of station by squad
CompletedPurchases(squad, station) ==
    {i \in 1..Len(transactions) :
        /\ transactions[i].wallet = squad
        /\ transactions[i].type = "withdrawal"
        /\ transactions[i].status = "completed"
        /\ transactions[i].reason = <<"purchase", station>>}

\* the prices of the purchase requests of squad, from request i on
RECURSIVE RequestedFrom(_, _)
RequestedFrom(i, squad) ==
    IF i > Len(requests)
    THEN 0
    ELSE RequestedFrom(i + 1, squad)
         + (IF requests[i].type = "STATION_PURCHASE" /\ squad_id(requests[i]) = squad
            THEN initial_price(requests[i].station_id)
            ELSE 0)

\* C29: however the process_request calls on one Created purchase request
\* interleave, at most one Completed Withdrawal is recorded for the request, and
\* the balance of the squad is reduced by the price of the station at most once.
C29_ProcessedAtMostOnce ==
    /\ \A rid \in 1..Len(requests) :
          Cardinality(CompletedPurchases(squad_id(requests[rid]),
                                         requests[rid].station_id)) <= 1
    /\ \A squad \in Squads :
          current_balance[squad] >= created_balance[squad] - RequestedFrom(1, squad)

\* C30: in every reachable state, the station of every Approved purchase
\* request is owned by the squad that made the request.
C30_ApprovedRequestOwnsStation ==
    \A rid \in 1..Len(requests) :
        ( /\ requests[rid].type = "STATION_PURCHASE"
          /\ requests[rid].status = "APPROVED" )
        => owner_id[requests[rid].station_id] = squad_id(requests[rid])

\* C31: in every reachable state the prices of the stations of a squad's
\* Created purchase requests add up to no more than the squad's wallet balance
\* (stated for histories in which every amount is positive, so that only an
\* ordinary withdrawal or direct purchase can have spent the reserved funds).
C31_ReservedFundsAreKept ==
    (\A i \in 1..Len(transactions) : transactions[i].amount > 0)
    => \A squad \in wallets :
          ReservedFrom(1, squad, UnknownStation) <= current_balance[squad]

\* C32: once a station has an owner, no call changes or clears that owner;
\* change_station_owner on an owned station, for another squad or with the
\* return id -1, is refused and writes nothing.
C32_OwnerIsFinal ==
    [][ /\ \A st \in Stations : owner_id[st] # None => owner_id'[st] = owner_id[st]
        /\ last'.op = "change_station_owner"
              => \A station \in Stations, squad \in Squads \cup {ReturnSquad} :
                   ( /\ owner_id[station] # None
                     /\ ChangeStationOwner(station, squad) )
                   => /\ UNCHANGED db
                      /\ last'.response.status_code
                           = IF squad = ReturnSquad THEN 501 ELSE 400
      ]_vars

\* a return (squad id -1) was refused while station 1 had an owner
C32_Witness ==
    /\ last = Finished("change_station_owner", Response(501, "return_not_supported", 0))
    /\ owner_id[1] # None

\* C33: every transaction with status Completed has a positive amount.
C33_CompletedAmountIsPositive ==
    \A i \in 1..Len(transactions) :
        transactions[i].status = "completed" => transactions[i].amount > 0

\* C34: a successful station purchase leaves the buying squad's
\* get_full_balance() as it was, the balance falling by the station's
\* initial_price and the owned stations' total rising by it; only add_balance
\* changes the get_full_balance() of a squad that has its wallet.
C34_PurchaseKeepsFullBalance ==
    [][ \A squad \in wallets :
          /\ ( /\ last'.op # "add_balance"
               /\ <<current_balance, owner_id>>' # <<current_balance, owner_id>> )
                => get_full_balance(squad, current_balance', owner_id')
                     = get_full_balance(squad, current_balance, owner_id)
          /\ ( /\ last'.op \in {"change_station_owner", "process_request"}
               /\ last'.response.status_code = 201 )
                => \A station \in Stations :
                     owner_id'[station] # owner_id[station]
                     => /\ current_balance'[owner_id'[station]]
                             = current_balance[owner_id'[station]] - initial_price(station)
                        /\ sum_initial_price(stations_of_squad(owner_id'[station], owner_id'))
                             = sum_initial_price(stations_of_squad(owner_id'[station], owner_id))
                               + initial_price(station)
      ]_vars

\* squad 1 has bought station 2: balance 4000, stations worth 6000
C34_Witness ==
    /\ last.op \in {"change_station_owner", "process_request"}
    /\ last.response.status_code = 201
    /\ owner_id[2] = 1
    /\ current_balance[1] = INITIAL_BALANCE - initial_price(2)
    /\ get_full_balance(1, current_balance, owner_id) = INITIAL_BALANCE

\* the squads that own a station of the line
OwnersOnLine(line) == {owner_id[st] : st \in stations_of_line(line)} \ {None}

\* C35: is_owned_by_one_squad() is true exactly when the line has no unowned
\* station and its stations have exactly one distinct owner; so it is false for
\* a line without stations and for a line owned entirely but by two squads.
C35_OneSquadMeansOneOwnerOfAll ==
    last.op = "is_owned_by_one_squad"
    => LET line == last.response.line
       IN  last.response.value
             = ( /\ \A st \in stations_of_line(line) : owner_id[st] # None
                 /\ Cardinality(OwnersOnLine(line)) = 1 )

\* the query answered False for line 1, whose two stations are owned by two squads
C35_Witness ==
    /\ last.op = "is_owned_by_one_squad"
    /\ last.response.line = 1
    /\ owner_id[1] = 1
    /\ owner_id[2] = 2
    /\ last.response.value = FALSE

\* C36: get_number_of_stations_owned_by_squads() returns a map whose keys are
\* exactly the numbers of the squads that own a station of the line, each with
\* the number of stations of the line that the squad owns.
C36_MapCountsStationsPerSquad ==
    last.op = "get_number_of_stations_owned_by_squads"
    => LET line == last.response.line
           result == last.response.value
       IN  /\ DOMAIN result = {<<"number", number(squad)>> : squad \in OwnersOnLine(line)}
           /\ \A squad \in OwnersOnLine(line) :
                 result[<<"number", number(squad)>>]
                   = Cardinality({st \in stations_of_line(line) : owner_id[st] = squad})

\* C37: a Wallet created with an explicit initial_balance b >= 0, 0 included,
\* has current_balance b; a Wallet created without one has INITIAL_BALANCE.
C37_WalletStartsWithGivenBalance ==
    [][ last'.op = "create_wallet"
          => \A squad \in Squads, ib \in InitialBalances :
               CreateWallet(squad, ib[1], ib[2])
               => current_balance'[squad] = IF ib[1] THEN ib[2] ELSE INITIAL_BALANCE
      ]_vars

\* C38: an add_balance call whose type is neither "deposit" nor "withdraw" does
\* not answer with the success result, and leaves the balances and the
\* transaction history as they were.
C38_UnknownTypeIsNotASuccess ==
    [][ last'.op = "add_balance"
          => \A squad \in Squads, amount \in Amounts :
               AddBalance(squad, "other", amount)
               => /\ last'.response.status_code # 201
                  /\ UNCHANGED <<current_balance, transactions>>
      ]_vars

\* C39: a call that names an unknown entity is refused and writes nothing:
\* create_purchase_request with an unknown station id, change_station_owner
\* for a squad without wallet or with an unknown station id, process_request
\* with an unknown request id (every step of one of the three handlers
\* either answers 400 with no table changed, or is no such call).
C39_UnknownEntityChangesNothing ==
    [][ \/ last'.op \notin {"create_purchase_request", "change_station_owner",
                            "process_request"}
        \/ /\ last'.response.status_code = 400
           /\ UNCHANGED db
        \/ /\ last'.op = "create_purchase_request"
              => \A squad \in Squads, t \in Clock :
                   ~CreatePurchaseRequest(squad, UnknownStation, t)
           /\ last'.op = "change_station_owner"
              => \A station \in Stations \cup {UnknownStation}, squad \in Squads :
                   (squad \notin wallets \/ station = UnknownStation)
                   => ~ChangeStationOwner(station, squad)
           /\ last'.op = "process_request"
              => \A rid \in 1..(MaxRequests + 1) :
                   rid > Len(requests) => ~ProcessRequest(rid)
      ]_vars

\* inside the window, a squad with its wallet asked for a station that does not
\* exist and was refused
C39_Witness ==
    /\ last = Finished("create_purchase_request", Response(400, "station_not_found", 0))
    /\ wallets = Squads
    /\ requests = <<>>

====
